---- MODULE Spec2Model ----
(***************************************************************************)
(* A model of elsewherr: the tag synchroniser (elsewherr.py) and the       *)
(* reference dump (providers.py).                                          *)
(*                                                                         *)
(* Text is a sequence of one-character strings, so that lower-casing, the  *)
(* alphanumeric filter, substring search and str.replace are computed as   *)
(* Python computes them.                                                   *)
(***************************************************************************)
EXTENDS Integers, Sequences, FiniteSets, TLC

VARIABLES
    pc,          \* position of elsewherr.main
    cfg,         \* the loaded configuration
    i,           \* create_provider_tags: index of the next required provider
    calls,       \* HTTP requests made so far, in order
    existing,    \* get_provider_tags: existing_tags
    toRemove,    \* provider_tags_to_remove
    toAdd,       \* provider_tags_to_add
    movies,      \* the movie records held by main / process_movies
    mi,          \* process_movies: index of the next movie
    visited,     \* indexes of the movies whose loop body has started
    flatrate,    \* providers of the movie visited last (found FALSE when skipped)
    adding,      \* tags for which "Adding tag" was logged for that movie
    raised,      \* an exception reached the handler of main (line 168)
    rmIn,        \* remove_provider_tags: argument update_tags
    rmRemove,    \* remove_provider_tags: argument provider_tags_to_remove
    rmOut,       \* remove_provider_tags: the returned list
    ppc,         \* position of providers.main
    file,        \* providers.txt: whether it exists and the reports in it
    fetches,     \* providers.py: endpoints requested so far, in order
    perr         \* providers.main ended by a propagated exception

vars == <<pc, cfg, i, calls, existing, toRemove, toAdd, movies, mi, visited,
          flatrate, adding, raised, rmIn, rmRemove, rmOut, ppc, file,
          fetches, perr>>

mainVars == <<pc, cfg, i, calls, existing, toRemove, toAdd, movies, mi,
              visited, flatrate, adding, raised>>
rmVars == <<rmIn, rmRemove, rmOut>>
provVars == <<ppc, file, fetches, perr>>

----------------------------------------------------------------------------
(* Bounds *)

MaxProviders == 2
MaxMovies == 2

SeqsUpTo(S, n) == UNION {[1..k -> S] : k \in 0..n}

----------------------------------------------------------------------------
(* Text *)

UpperChars == {"T", "N", "K", "H"}
LowerChars == {"t", "n", "k", "h"}
Digits == {"4"}

\* str.lower, one character
LowerChar(c) ==
    CASE c = "T" -> "t"
      [] c = "N" -> "n"
      [] c = "K" -> "k"
      [] c = "H" -> "h"
      [] OTHER -> c

\* str.lower
Lower(s) == [k \in 1..Len(s) |-> LowerChar(s[k])]

\* the complement of the class [^A-Za-z0-9]
IsAlnum(c) == c \in UpperChars \cup LowerChars \cup Digits

\* re.sub('[^A-Za-z0-9]+', '', s)
Sanitize(s) == SelectSeq(s, IsAlnum)

\* sub in s, for strings
Contains(sub, s) ==
    \E k \in 0..(Len(s) - Len(sub)) : SubSeq(s, k + 1, k + Len(sub)) = sub

\* s.replace(old, ''): every non-overlapping occurrence, left to right
RECURSIVE Replace(_, _)
Replace(s, old) ==
    IF old = <<>> \/ Len(s) < Len(old) THEN s
    ELSE IF SubSeq(s, 1, Len(old)) = old
         THEN Replace(SubSeq(s, Len(old) + 1, Len(s)), old)
         ELSE <<Head(s)>> \o Replace(Tail(s), old)

\* x in lst, for lists
InList(x, lst) == \E k \in 1..Len(lst) : lst[k] = x

----------------------------------------------------------------------------
(* Input pools: configurations, Radarr responses, TMDB responses *)

\* provider names: "N", "N K", "H"
NameN == <<"N">>
NameNK == <<"N", " ", "K">>
NameH == <<"H">>

\* labels: "t-n", "t-nk", "n"
LabelTN == <<"t", "-", "n">>
LabelTNK == <<"t", "-", "n", "k">>
LabelN == <<"n">>

\* the configurations of a run: tagPrefix "t-" or "T-", requiredProviders a
\* list of "N" and "N K"
Configs ==
    {[tagPrefix |-> p, requiredProviders |-> r, providerRegion |-> "US"] :
        p \in {<<"t", "-">>, <<"T", "-">>},
        r \in SeqsUpTo({NameN, NameNK}, MaxProviders)}

\* a GET /api/v3/tag body: tags with the ids Radarr assigned, all different
TagsOf(labels) == [k \in 1..Len(labels) |-> [id |-> k, label |-> labels[k]]]

TagLists ==
    {TagsOf(ls) : ls \in {<<>>, <<LabelTN>>, <<LabelTN, LabelTNK>>, <<LabelN, LabelTNK>>}}

\* movie records of Radarr
MoviePool ==
    {[title |-> "A", tmdbId |-> 11, tags |-> <<1>>],
     [title |-> "B", tmdbId |-> 12, tags |-> <<2, 1>>]}

MovieLists == SeqsUpTo(MoviePool, MaxMovies)

\* outcomes of a Radarr call that can fail: the request raises, or the status
\* is not 2xx
HttpErrors == {"network_error", "http_error"}

\* the answers of a Radarr GET whose successful bodies are in bodies
Responses(bodies) ==
    {[status |-> e, body |-> <<>>] : e \in HttpErrors}
    \cup {[status |-> "ok", body |-> b] : b \in bodies}

\* the value of a flatrate key
FlatrateOf(names) == [k \in 1..Len(names) |-> [provider_name |-> names[k]]]

FlatrateLists ==
    {FlatrateOf(ns) : ns \in {<<>>, <<NameN>>, <<NameH>>, <<NameNK, NameH>>}}

\* the JSON documents of a watch/providers answer: without results, without
\* the region, without flatrate, with flatrate
TmdbDocs ==
    {[status_code |-> 34],
     [results |-> [GB |-> [flatrate |-> FlatrateOf(<<NameN>>)]]],
     [results |-> [US |-> [rent |-> FlatrateOf(<<NameN>>)]]]}
    \cup {[results |-> [US |-> [flatrate |-> f]]] : f \in FlatrateLists}

\* outcomes of get_tmdb_providers: the request raises, or a JSON document
TmdbOutcomes ==
    {[raises |-> TRUE, json |-> [status_code |-> 0]]}
    \cup {[raises |-> FALSE, json |-> d] : d \in TmdbDocs}

----------------------------------------------------------------------------
(* elsewherr.py *)

\* a request: the endpoint, the label posted, the TMDB id asked for, the outcome
Call(op, label, id, status) == [op |-> op, label |-> label, id |-> id, status |-> status]

\* main, line 157
required_providers_lower(config) ==
    [k \in 1..Len(config.requiredProviders) |->
        Lower(Sanitize(config.requiredProviders[k]))]

\* create_provider_tags, line 30
provider_tag(config, required_provider) ==
    Lower(config.tagPrefix \o Sanitize(required_provider))

\* a faulty variant of post_raises: the failure of a POST leaves create_provider_tags
post_raises_uncaught(status) == status # "ok"

\* create_provider_tags, lines 33-38: does the exception of a POST leave the loop
post_raises(status) == FALSE

\* a faulty variant of in_to_remove: the prefix is compared as configured
in_to_remove_raw(config, existing_tag) ==
    Contains(config.tagPrefix, existing_tag.label)

\* get_provider_tags, line 52: the filter of provider_tags_to_remove
in_to_remove(config, existing_tag) ==
    Contains(Lower(config.tagPrefix), existing_tag.label)

\* get_provider_tags, lines 54-55: the filter of provider_tags_to_add
in_to_add(config, rpl, existing_tag) ==
    InList(Replace(existing_tag.label, Lower(config.tagPrefix)), rpl)

\* a faulty variant of get_provider_tags: a failed listing is answered by empty lists
get_provider_tags_swallow(config, rpl, resp) ==
    IF resp.status \in HttpErrors
    THEN [exc |-> FALSE, existing |-> <<>>, toRemove |-> <<>>, toAdd |-> <<>>]
    ELSE [exc |-> FALSE, existing |-> resp.body,
          toRemove |-> SelectSeq(resp.body, LAMBDA t : in_to_remove(config, t)),
          toAdd |-> SelectSeq(resp.body, LAMBDA t : in_to_add(config, rpl, t))]

\* get_provider_tags, lines 45-60: exc when the exception is re-raised (line 60).
\* The listing fails when requests.get raises, or when the answer is not 2xx
\* and carries no list of tags, so that json() or the subscript of line 52
\* raises inside the try.
get_provider_tags(config, rpl, resp) ==
    IF resp.status \in HttpErrors
    THEN [exc |-> TRUE, existing |-> <<>>, toRemove |-> <<>>, toAdd |-> <<>>]
    ELSE [exc |-> FALSE, existing |-> resp.body,
          toRemove |-> SelectSeq(resp.body, LAMBDA t : in_to_remove(config, t)),
          toAdd |-> SelectSeq(resp.body, LAMBDA t : in_to_add(config, rpl, t))]

\* a faulty variant of get_movies_from_radarr: the error is re-raised
get_movies_from_radarr_raise(resp) ==
    IF resp.status \in HttpErrors
    THEN [exc |-> TRUE, movies |-> <<>>]
    ELSE [exc |-> FALSE, movies |-> resp.body]

\* get_movies_from_radarr, lines 138-146
get_movies_from_radarr(resp) ==
    IF resp.status \in HttpErrors
    THEN [exc |-> FALSE, movies |-> <<>>]
    ELSE [exc |-> FALSE, movies |-> resp.body]

\* d[k] of a JSON object, or the KeyError
HasKey(d, k) == k \in DOMAIN d

\* process_movies, lines 78-80: the lookup and the three subscripts
lookup_flatrate(outcome, region) ==
    IF outcome.raises THEN [exc |-> "RequestException", providers |-> <<>>]
    ELSE IF ~HasKey(outcome.json, "results")
         THEN [exc |-> "KeyError", providers |-> <<>>]
    ELSE IF ~HasKey(outcome.json["results"], region)
         THEN [exc |-> "KeyError", providers |-> <<>>]
    ELSE IF ~HasKey(outcome.json["results"][region], "flatrate")
         THEN [exc |-> "KeyError", providers |-> <<>>]
    ELSE [exc |-> "none", providers |-> outcome.json["results"][region]["flatrate"]]

\* a faulty variant of lookup_caught: only the KeyError has a handler
lookup_caught_keyerror_only(exc) == exc = "KeyError"

\* process_movies, lines 82-87: the handlers of the lookup, both continue
lookup_caught(exc) == exc \in {"KeyError", "RequestException"}

\* process_movies, line 93
tag_to_add(config, provider_name) ==
    Lower(config.tagPrefix \o Sanitize(provider_name))

\* process_movies, line 96
tag_matches(label_to_add, provider_tag_to_add) ==
    Contains(label_to_add, provider_tag_to_add.label)

\* process_movies, lines 91-98: the tags logged by "Adding tag", in loop order
RECURSIVE adding_tags(_, _, _)
adding_tags(config, providers, provider_tags_to_add) ==
    IF providers = <<>> THEN <<>>
    ELSE SelectSeq(provider_tags_to_add,
                   LAMBDA t : tag_matches(tag_to_add(config, Head(providers).provider_name), t))
         \o adding_tags(config, Tail(providers), provider_tags_to_add)

\* remove_provider_tags, line 124: list.remove, the first occurrence only
RECURSIVE list_remove(_, _)
list_remove(lst, x) ==
    IF lst = <<>> THEN <<>>
    ELSE IF Head(lst) = x THEN Tail(lst)
    ELSE <<Head(lst)>> \o list_remove(Tail(lst), x)

\* remove_provider_tags, lines 119-128 (a ValueError is caught and skipped)
RECURSIVE remove_provider_tags(_, _)
remove_provider_tags(update_tags, provider_tags_to_remove) ==
    IF provider_tags_to_remove = <<>> THEN update_tags
    ELSE remove_provider_tags(
             IF InList(Head(provider_tags_to_remove).id, update_tags)
             THEN list_remove(update_tags, Head(provider_tags_to_remove).id)
             ELSE update_tags,
             Tail(provider_tags_to_remove))

Ids(tags) == [k \in 1..Len(tags) |-> tags[k].id]

\* a faulty variant of updated_movie: lines 89, 98 and 100 are executed
updated_movie_applied(movie, to_remove, added) ==
    [movie EXCEPT !.tags = remove_provider_tags(movie.tags, to_remove) \o Ids(added)]

\* process_movies, lines 70 and 89-101: update is the movie record itself
updated_movie(movie, to_remove, added) == movie

\* process_movies, lines 103-108: the requests of the update step
update_requests(update) == <<>>

----------------------------------------------------------------------------
(* elsewherr.main: the steps of one run *)

NoFlatrate == [found |-> FALSE, providers |-> <<>>]
NotReturned == [returned |-> FALSE, tags |-> <<>>]
Absent == [exists |-> FALSE, reports |-> <<>>]

\* the variables of the other entry points, at rest
RemoveIdle == rmIn = <<>> /\ rmRemove = <<>> /\ rmOut = NotReturned
ProvidersIdle == ppc = "idle" /\ file = Absent /\ fetches = <<>> /\ perr = FALSE

\* elsewherr.main not running
MainIdle ==
    /\ pc = "idle"
    /\ cfg = [tagPrefix |-> <<>>, requiredProviders |-> <<>>, providerRegion |-> "US"]
    /\ i = 1
    /\ calls = <<>>
    /\ existing = <<>> /\ toRemove = <<>> /\ toAdd = <<>>
    /\ movies = <<>> /\ mi = 1 /\ visited = <<>>
    /\ flatrate = NoFlatrate /\ adding = <<>>
    /\ raised = FALSE

InitRest == RemoveIdle /\ ProvidersIdle

\* main, lines 151-158: the configuration is loaded
InitMain(configs) ==
    /\ cfg \in configs
    /\ pc = "create_tags"
    /\ i = 1
    /\ calls = <<>>
    /\ existing = <<>> /\ toRemove = <<>> /\ toAdd = <<>>
    /\ movies = <<>> /\ mi = 1 /\ visited = <<>>
    /\ flatrate = NoFlatrate /\ adding = <<>>
    /\ raised = FALSE

Init == InitMain(Configs) /\ InitRest

\* create_provider_tags, lines 29-38: one iteration of the loop
PostTag ==
    /\ pc = "create_tags"
    /\ i <= Len(cfg.requiredProviders)
    /\ \E status \in {"ok", "network_error"} :
        /\ calls' = Append(calls,
               Call("POST /api/v3/tag", provider_tag(cfg, cfg.requiredProviders[i]), 0, status))
        /\ IF post_raises(status)
           THEN pc' = "done" /\ raised' = TRUE /\ i' = i
           ELSE pc' = pc /\ raised' = raised /\ i' = i + 1
    /\ UNCHANGED <<cfg, existing, toRemove, toAdd, movies, mi, visited, flatrate, adding>>
    /\ UNCHANGED <<rmVars, provVars>>

\* main, lines 160-162 with get_provider_tags, lines 41-60: the loop of
\* create_provider_tags has ended and the tags are listed and classified
GetTags(bodies) ==
    /\ pc = "create_tags"
    /\ i > Len(cfg.requiredProviders)
    /\ \E resp \in Responses(bodies) :
        LET r == get_provider_tags(cfg, required_providers_lower(cfg), resp) IN
        /\ calls' = Append(calls, Call("GET /api/v3/tag", <<>>, 0, resp.status))
        /\ existing' = r.existing
        /\ toRemove' = r.toRemove
        /\ toAdd' = r.toAdd
        /\ raised' = r.exc
        /\ pc' = IF r.exc THEN "done" ELSE "get_movies"
    /\ UNCHANGED <<cfg, i, movies, mi, visited, flatrate, adding>>
    /\ UNCHANGED <<rmVars, provVars>>

GetProviderTags == GetTags(TagLists)

\* main, lines 164-167 with get_movies_from_radarr, lines 131-146:
\* the movies are listed and process_movies is entered
GetMovies ==
    /\ pc = "get_movies"
    /\ \E resp \in Responses(MovieLists) :
        LET r == get_movies_from_radarr(resp) IN
        /\ calls' = Append(calls, Call("GET /api/v3/movie", <<>>, 0, resp.status))
        /\ movies' = r.movies
        /\ raised' = r.exc
        /\ pc' = IF r.exc THEN "done" ELSE "process"
    /\ mi' = 1
    /\ UNCHANGED <<cfg, i, existing, toRemove, toAdd, visited, flatrate, adding>>
    /\ UNCHANGED <<rmVars, provVars>>

\* process_movies, lines 69-108: the loop body for one movie
ProcessMovie ==
    /\ pc = "process"
    /\ mi <= Len(movies)
    /\ \E outcome \in TmdbOutcomes :
        LET movie == movies[mi]
            l == lookup_flatrate(outcome, cfg.providerRegion)
            added == adding_tags(cfg, l.providers, toAdd)
            update == updated_movie(movie, toRemove, added)
            get == Call("GET /3/movie/watch/providers", <<>>, movie.tmdbId,
                        IF outcome.raises THEN "network_error" ELSE "ok")
        IN
        /\ visited' = Append(visited, mi)
        /\ IF l.exc = "none"
           THEN /\ calls' = Append(calls, get) \o update_requests(update)
                /\ flatrate' = [found |-> TRUE, providers |-> l.providers]
                /\ adding' = added
                /\ movies' = [movies EXCEPT ![mi] = update]
                /\ mi' = mi + 1
                /\ UNCHANGED <<pc, raised>>
           ELSE /\ calls' = Append(calls, get)
                /\ flatrate' = NoFlatrate
                /\ adding' = <<>>
                /\ movies' = movies
                /\ IF lookup_caught(l.exc)
                   THEN mi' = mi + 1 /\ UNCHANGED <<pc, raised>>
                   ELSE mi' = mi /\ pc' = "done" /\ raised' = TRUE
    /\ UNCHANGED <<cfg, i, existing, toRemove, toAdd>>
    /\ UNCHANGED <<rmVars, provVars>>

\* process_movies returns, main ends
ProcessReturn ==
    /\ pc = "process"
    /\ mi > Len(movies)
    /\ pc' = "done"
    /\ UNCHANGED <<cfg, i, calls, existing, toRemove, toAdd, movies, mi, visited,
                   flatrate, adding, raised>>
    /\ UNCHANGED <<rmVars, provVars>>

Next == PostTag \/ GetProviderTags \/ GetMovies \/ ProcessMovie \/ ProcessReturn

Spec == Init /\ [][Next]_vars

----------------------------------------------------------------------------
(* Properties of a run of elsewherr.main *)

CallsOf(op) == SelectSeq(calls, LAMBDA c : c.op = op)
Failed(c) == c.status # "ok"
TagListingFailed == \E k \in 1..Len(calls) : calls[k].op = "GET /api/v3/tag" /\ Failed(calls[k])
MoviesListed == CallsOf("GET /api/v3/movie") # <<>>
TagsListed == CallsOf("GET /api/v3/tag") # <<>>

\* C1: a failed tag listing (GET /api/v3/tag) is the last request of the run:
\* the run is over with the error at main's handler, no movie listing and no
\* TMDB lookup was made, and no movie was visited.
C1_FailedTagListingEndsRun ==
    \A k \in 1..Len(calls) :
        (calls[k].op = "GET /api/v3/tag" /\ Failed(calls[k])) =>
            /\ k = Len(calls)
            /\ pc = "done" /\ raised
            /\ CallsOf("GET /api/v3/movie") = <<>>
            /\ CallsOf("GET /3/movie/watch/providers") = <<>>
            /\ visited = <<>> /\ movies = <<>>

C1_Witness ==
    /\ TagListingFailed /\ pc = "done"
    /\ Len(CallsOf("POST /api/v3/tag")) >= 1

\* C2: process_movies visits every movie once, in list order, and returns
\* without raising, whatever the outcomes of the TMDB lookups: while it runs
\* the movies before mi have been visited in order, one lookup each, and when
\* the run is over after a movie listing all of them have been.
C2_EveryMovieVisitedOnce ==
    LET lookups == CallsOf("GET /3/movie/watch/providers")
        n == IF pc = "process" THEN mi - 1 ELSE Len(movies)
    IN  MoviesListed =>
            /\ ~raised
            /\ pc \in {"process", "done"}
            /\ visited = [k \in 1..n |-> k]
            /\ Len(lookups) = n
            /\ \A k \in 1..n : lookups[k].id = movies[k].tmdbId

C2_Witness ==
    /\ pc = "done" /\ Len(visited) >= 2
    /\ Failed(CallsOf("GET /3/movie/watch/providers")[1])
    /\ flatrate.found /\ flatrate.providers # <<>>

\* C3: create_provider_tags attempts one POST /api/v3/tag per required
\* provider, in list order, whatever POSTs fail; it does not raise, and the
\* tag listing is made only after the POST for the last provider.
C3_OnePostPerProvider ==
    LET posts == CallsOf("POST /api/v3/tag")
        req == cfg.requiredProviders
    IN  /\ Len(posts) <= Len(req)
        /\ \A k \in 1..Len(posts) : posts[k].label = Lower(cfg.tagPrefix \o Sanitize(req[k]))
        /\ ~TagsListed => (pc = "create_tags" /\ ~raised /\ Len(posts) = i - 1
                           /\ Len(calls) = Len(posts))
        /\ TagsListed => (Len(posts) = Len(req) /\ calls[Len(req) + 1].op = "GET /api/v3/tag")

C3_Witness ==
    LET posts == CallsOf("POST /api/v3/tag") IN
    /\ TagsListed
    /\ Len(posts) >= 2
    /\ Failed(posts[1]) /\ ~Failed(posts[2])

\* C4: a failed movie listing (GET /api/v3/movie), by a network error or a
\* non-2xx status, raises nothing: the movie list is empty, process_movies is
\* entered and the run ends with no movie visited and no TMDB lookup made.
C4_FailedMovieListingIsEmptyList ==
    \A k \in 1..Len(calls) :
        (calls[k].op = "GET /api/v3/movie" /\ Failed(calls[k])) =>
            /\ k = Len(calls)
            /\ ~raised
            /\ movies = <<>>
            /\ pc \in {"process", "done"}
            /\ visited = <<>>
            /\ CallsOf("GET /3/movie/watch/providers") = <<>>

C4_Witness ==
    /\ pc = "done" /\ ~raised
    /\ \E k \in 1..Len(calls) :
        calls[k].op = "GET /api/v3/movie" /\ calls[k].status = "http_error"

\* C9: for a movie with flat-rate providers, a tag of toAdd is logged by
\* "Adding tag" exactly when its label is the managed label
\* lowercase(prefix + sanitized(name)) of one of the movie's providers.
C9_AddingExactlyManagedLabels ==
    flatrate.found =>
        \A k \in 1..Len(toAdd) :
            InList(toAdd[k], adding) <=>
                \E j \in 1..Len(flatrate.providers) :
                    toAdd[k].label =
                        Lower(cfg.tagPrefix \o Sanitize(flatrate.providers[j].provider_name))

\* C10: process_movies changes no tag data: every step taken inside it leaves
\* the movie records (their tag ids), toRemove and toAdd as they were, and
\* no PUT /api/v3/movie is ever among the requests.
C10_ProcessMoviesChangesNothing ==
    [][/\ pc = "process" => (movies' = movies /\ toRemove' = toRemove /\ toAdd' = toAdd)
       /\ \A k \in 1..Len(calls') : calls'[k].op # "PUT /api/v3/movie"]_vars

C10_Witness ==
    /\ flatrate.found /\ adding # <<>>
    /\ visited # <<>>
    /\ \E t \in 1..Len(toRemove) :
        InList(toRemove[t].id, movies[visited[Len(visited)]].tags)

----------------------------------------------------------------------------
(* Tag creation and classification on a wider range of prefixes and labels *)

MaxTags == 2

\* tagPrefix "t-", "T-" or "n"; requiredProviders a list of "N", "N K", "H"
TagConfigs ==
    {[tagPrefix |-> p, requiredProviders |-> r, providerRegion |-> "US"] :
        p \in {<<"t", "-">>, <<"T", "-">>, <<"n">>},
        r \in SeqsUpTo({NameN, NameNK, NameH}, MaxProviders)}

\* labels "t-n", "t-nk", "n", "T-N", "nn", "nt-k", "h", "t-x"
AnyLabels ==
    {LabelTN, LabelTNK, LabelN, <<"T", "-", "N">>, <<"n", "n">>,
     <<"n", "t", "-", "k">>, <<"h">>, <<"t", "-", "x">>}

AnyTagLists == {TagsOf(ls) : ls \in SeqsUpTo(AnyLabels, MaxTags)}

InitTags == InitMain(TagConfigs) /\ InitRest

GetAnyProviderTags == GetTags(AnyTagLists)

NextTags == PostTag \/ GetAnyProviderTags

SpecTags == InitTags /\ [][NextTags]_vars

TagsClassified == TagsListed /\ ~TagListingFailed

\* C6 as stated: toRemove holds exactly the existing tags whose label contains
\* the prefix, compared without regard to the letter case of either.
C6_ToRemoveCaseInsensitive ==
    TagsClassified =>
        \A k \in 1..Len(existing) :
            InList(existing[k], toRemove) <=>
                Contains(Lower(cfg.tagPrefix), Lower(existing[k].label))

\* C6 amended: toRemove holds exactly the existing tags whose label, as
\* stored, contains the lower-cased prefix, in the order of the listing,
\* whether or not the tag is also in toAdd.
C6_ToRemoveLoweredPrefixInLabel ==
    TagsClassified =>
        /\ \A k \in 1..Len(existing) :
            InList(existing[k], toRemove) <=>
                Contains(Lower(cfg.tagPrefix), existing[k].label)
        /\ \A k \in 1..Len(toRemove) : InList(toRemove[k], existing)
        /\ \A j, k \in 1..Len(toRemove) : j < k => toRemove[j].id < toRemove[k].id

C6_Witness ==
    /\ TagsClassified
    /\ cfg.tagPrefix = <<"T", "-">>
    /\ \E k \in 1..Len(existing) :
        /\ InList(existing[k], toRemove) /\ InList(existing[k], toAdd)
    /\ \E k \in 1..Len(existing) :
        /\ ~InList(existing[k], toRemove)
        /\ existing[k].label = <<"T", "-", "N">>

\* C7: toAdd holds exactly the existing tags whose label is
\* lowercase(prefix + sanitized(p)) for a required provider p, the label that
\* create_provider_tags posts, and every tag of toAdd is also in toRemove.
C7_ToAddExactlyCreatedLabels ==
    TagsClassified =>
        /\ \A k \in 1..Len(existing) :
            InList(existing[k], toAdd) <=>
                \E j \in 1..Len(cfg.requiredProviders) :
                    existing[k].label = CallsOf("POST /api/v3/tag")[j].label
        /\ \A k \in 1..Len(toAdd) : InList(toAdd[k], toRemove)

----------------------------------------------------------------------------
(* remove_provider_tags as a function of its arguments *)

MaxTagId == 3
MaxTagIds == 3
MaxToRemove == 2

InitRemove ==
    /\ MainIdle /\ ProvidersIdle
    /\ rmIn \in SeqsUpTo(1..MaxTagId, MaxTagIds)
    /\ rmRemove \in {[k \in 1..Len(ids) |-> [id |-> ids[k], label |-> LabelTN]] :
                        ids \in SeqsUpTo(1..MaxTagId, MaxToRemove)}
    /\ rmOut = NotReturned

\* a call of remove_provider_tags(rmIn, rmRemove)
RemoveProviderTags ==
    /\ ~rmOut.returned
    /\ rmOut' = [returned |-> TRUE, tags |-> remove_provider_tags(rmIn, rmRemove)]
    /\ UNCHANGED <<rmIn, rmRemove, mainVars, provVars>>

NextRemove == RemoveProviderTags

SpecRemove == InitRemove /\ [][NextRemove]_vars

\* C5: the list returned is currentTagIds without the ids of toRemove: no id
\* of toRemove is left in it, and the other ids keep their order and
\* multiplicity, also when an id occurs more than once in currentTagIds.
C5_EveryIdOfToRemoveDeleted ==
    rmOut.returned =>
        /\ \A k \in 1..Len(rmRemove) : ~InList(rmRemove[k].id, rmOut.tags)
        /\ rmOut.tags = SelectSeq(rmIn, LAMBDA x : ~InList(x, Ids(rmRemove)))

----------------------------------------------------------------------------
(* providers.py *)

\* Provider names are numbered in alphabetical order: 0 is the empty string,
\* 1 "Hulu", 2 "Netflix", and so on; < on the numbers is < on the strings.
MaxNameCode == 2
MaxRefProviders == 3

TMDB_REGIONS_ENDPOINT == "watch/providers/regions"
TMDB_PROVIDERS_ENDPOINT == "watch/providers/movie"

\* a record of the providers list: with a provider_name, or without one
RefProviders ==
    {[provider_name |-> n] : n \in 1..MaxNameCode} \cup {[provider_id |-> 0]}

RegionUS == [iso_3166_1 |-> "US", english_name |-> "United States"]
RegionGB == [iso_3166_1 |-> "GB", english_name |-> "United Kingdom"]

\* the answers of a TMDB reference endpoint: the request raises, the status
\* is not 2xx, or a JSON document with or without the results key
RefResponses(lists) ==
    {[status |-> e, json |-> [status_code |-> 0]] : e \in HttpErrors}
    \cup {[status |-> "ok", json |-> [status_code |-> 1]]}
    \cup {[status |-> "ok", json |-> [results |-> l]] : l \in lists}

RegionResponses == RefResponses({<<>>, <<RegionUS>>, <<RegionUS, RegionGB>>})
ProviderResponses == RefResponses(SeqsUpTo(RefProviders, MaxRefProviders))

\* a faulty variant of fetch_data: the error is logged and an empty list returned
fetch_data_swallow(resp) ==
    IF resp.status \in HttpErrors THEN [exc |-> FALSE, data |-> <<>>]
    ELSE IF HasKey(resp.json, "results")
         THEN [exc |-> FALSE, data |-> resp.json["results"]]
         ELSE [exc |-> FALSE, data |-> <<>>]

\* fetch_data, lines 50-57
fetch_data(resp) ==
    IF resp.status \in HttpErrors THEN [exc |-> TRUE, data |-> <<>>]
    ELSE IF HasKey(resp.json, "results")
         THEN [exc |-> FALSE, data |-> resp.json["results"]]
         ELSE [exc |-> FALSE, data |-> <<>>]

\* remove_existing_file, lines 31-33
remove_existing_file(f) == IF f.exists THEN Absent ELSE f

\* sorted(...) of a set of names
RECURSIVE sorted(_)
sorted(S) ==
    IF S = {} THEN <<>>
    ELSE LET m == CHOOSE x \in S : \A y \in S : x <= y
         IN  <<m>> \o sorted(S \ {m})

\* main, line 91: p.get("provider_name", "") for every p, as a set, sorted
all_providers(providers) ==
    sorted({IF HasKey(providers[k], "provider_name") THEN providers[k].provider_name ELSE 0 :
                k \in 1..Len(providers)})

\* write_to_file, lines 69-76: the file is opened for appending
write_to_file(f, regions, providers) ==
    [exists |-> TRUE,
     reports |-> Append(f.reports,
        [regions |-> [k \in 1..Len(regions) |->
                         <<regions[k].iso_3166_1, regions[k].english_name>>],
         providers |-> providers])]

\* a report left in providers.txt by an earlier run
OldReport == [regions |-> <<>>, providers |-> <<1>>]

Fetch(endpoint, resp) == [endpoint |-> endpoint, resp |-> resp]

InitProviders ==
    /\ MainIdle /\ RemoveIdle
    /\ ppc = "remove_existing_file"
    /\ file \in {Absent, [exists |-> TRUE, reports |-> <<OldReport>>]}
    /\ fetches = <<>>
    /\ perr = FALSE

\* main, lines 80-86
RemoveExisting ==
    /\ ppc = "remove_existing_file"
    /\ file' = remove_existing_file(file)
    /\ ppc' = "fetch_regions"
    /\ UNCHANGED <<fetches, perr, mainVars, rmVars>>

\* main, line 88
FetchRegions ==
    /\ ppc = "fetch_regions"
    /\ \E resp \in RegionResponses :
        /\ fetches' = Append(fetches, Fetch(TMDB_REGIONS_ENDPOINT, resp))
        /\ perr' = fetch_data(resp).exc
        /\ ppc' = IF fetch_data(resp).exc THEN "done" ELSE "fetch_providers"
    /\ UNCHANGED <<file, mainVars, rmVars>>

\* main, lines 89-93
FetchProvidersAndWrite ==
    /\ ppc = "fetch_providers"
    /\ \E resp \in ProviderResponses :
        LET regions == fetch_data(fetches[1].resp).data
            r == fetch_data(resp)
        IN
        /\ fetches' = Append(fetches, Fetch(TMDB_PROVIDERS_ENDPOINT, resp))
        /\ perr' = r.exc
        /\ file' = IF r.exc THEN file
                   ELSE write_to_file(file, regions, all_providers(r.data))
    /\ ppc' = "done"
    /\ UNCHANGED <<mainVars, rmVars>>

NextProviders == RemoveExisting \/ FetchRegions \/ FetchProvidersAndWrite

SpecProviders == InitProviders /\ [][NextProviders]_vars

FetchFailed(f) == f.resp.status \in HttpErrors

\* the names of a providers answer, "" for a record without provider_name
NamesOf(resp) ==
    IF HasKey(resp.json, "results")
    THEN {IF HasKey(resp.json["results"][k], "provider_name")
          THEN resp.json["results"][k].provider_name ELSE 0 :
              k \in 1..Len(resp.json["results"])}
    ELSE {}

\* C8: a failed fetch ends providers.main with the error propagated and no
\* report file (the old one was removed, write_to_file was not called), and a
\* failed regions fetch is the only fetch; after two successful fetches the
\* file holds exactly one report, whose provider section is the names of the
\* answer without duplicates, in ascending order.
C8_AnyFetchFailureAborts ==
    /\ \A k \in 1..Len(fetches) :
        FetchFailed(fetches[k]) =>
            /\ k = Len(fetches)
            /\ ppc = "done" /\ perr
            /\ ~file.exists /\ file.reports = <<>>
    /\ (Len(fetches) >= 1 /\ FetchFailed(fetches[1])) => Len(fetches) = 1
    /\ (ppc = "done" /\ \A k \in 1..Len(fetches) : ~FetchFailed(fetches[k])) =>
            /\ ~perr
            /\ Len(fetches) = 2
            /\ fetches[1].endpoint = TMDB_REGIONS_ENDPOINT
            /\ fetches[2].endpoint = TMDB_PROVIDERS_ENDPOINT
            /\ file.exists /\ Len(file.reports) = 1
            /\ LET ps == file.reports[1].providers IN
                /\ \A j, k \in 1..Len(ps) : j < k => ps[j] < ps[k]
                /\ {ps[k] : k \in 1..Len(ps)} = NamesOf(fetches[2].resp)

C8_Witness ==
    /\ ppc = "done" /\ perr
    /\ Len(fetches) = 2 /\ FetchFailed(fetches[2])
    /\ ~file.exists

====
